---- MODULE Spec2Model ----
(***************************************************************************)
(* UsersService (backend/src/users/users.service.ts) as a state machine.   *)
(*                                                                         *)
(* The state is the user collection, the preferences collection, the       *)
(* assets held by the Image Store (Cloudinary) and the requests in flight. *)
(* Every handler is cut at its awaits: each action is one collaborator     *)
(* call together with the synchronous code around it, so that requests     *)
(* interleave exactly where the event loop lets them.                      *)
(*                                                                         *)
(* Optional values (undefined / null in the source) are sequences of       *)
(* length at most one: None is <<>>, Some(x) is <<x>>.  Strings are        *)
(* sequences of tokens, the empty string being <<>>.                       *)
(***************************************************************************)
EXTENDS Naturals, Sequences, FiniteSets, TLC

VARIABLES
  users,        \* the user collection: id -> document
  preferences,  \* the preferences collection: the userId of each record
  images,       \* the publicIds of the assets the Image Store holds
  nextAsset,    \* how many assets the Image Store has been given so far
  req           \* the requests, by slot

vars == <<users, preferences, images, nextAsset, req>>

---------------------------------------------------------------------------
(* Bounds of the model *)

\* The ids the persistence layer hands out, and so the most users stored.
MaxUsers == 2

\* The requests served in one run.
MaxRequests == 2

UserIds == 1..MaxUsers

ReqIds == 1..MaxRequests

---------------------------------------------------------------------------
(* Values *)

None == <<>>

Some(x) == <<x>>

EmptyString == <<>>

Email(u) == <<"user", u, "@x">>

Emails == {Email(u) : u \in UserIds}

Passwords == {<<"pw">>}

RoleUser == "user"

RoleAdmin == "admin"

Fields ==
  {"bio", "country", "city", "firstName", "lastName",
   "website", "github", "twitter", "instagram", "linkedin"}

UrlFields == {"website", "github", "twitter", "instagram", "linkedin"}

\* JavaScript truthiness of an optional string: neither undefined nor "".
Truthy(o) == o # None /\ o[1] # EmptyString

hashPassword(pw) == <<"hash">> \o pw

startsWithHttp(url) ==
  IF Len(url) > 0 /\ url[1] \in {"http://", "https://"}
  THEN url
  ELSE <<"https://">> \o url

NoProfile == [f \in Fields |-> None]

\* The document userModel.create persists from an (email, password) input:
\* the role takes the schema's default and no avatar is stored.
NewUser(email, password) ==
  [email |-> email, password |-> password, role |-> RoleUser,
   avatar |-> None, profile |-> NoProfile]

EmailTaken(email) == \E u \in DOMAIN users : users[u].email = email

\* The id the persistence layer assigns to a new document.
FreshUserId == CHOOSE u \in UserIds \ DOMAIN users : \A v \in UserIds \ DOMAIN users : u <= v

\* userModel.create(doc) on the store: rejected on a duplicate email.
UserModelCreate(doc) ==
  IF EmailTaken(doc.email)
  THEN users
  ELSE [u \in DOMAIN users \cup {FreshUserId} |->
          IF u \in DOMAIN users THEN users[u] ELSE doc]

\* userModel.findById(id): the document, or null.
findById(id) == IF id \in DOMAIN users THEN Some(users[id]) ELSE None

---------------------------------------------------------------------------
(* Requests *)

\* op: the handler; pc: the await it stands at; id, arg: its parameters;
\* user: the document findById returned; calls: the collaborator calls made
\* so far, in order; asset: what uploadImage resolved to; pending: writes
\* started and not awaited; created: the id of the document this request
\* persisted; status, data: the response.
IdleReq ==
  [op |-> "idle", pc |-> "idle", id |-> None, arg |-> None, user |-> None,
   calls |-> <<>>, asset |-> None, pending |-> {}, created |-> None,
   status |-> "", data |-> None]

Start(op, id, arg) ==
  [IdleReq EXCEPT !.op = op, !.id = id, !.arg = arg]

\* The request ends by throwing: nothing further is called.
Throw(q, status) == [q EXCEPT !.pc = "done", !.status = status]

\* The request ends with the {status, message, data} success envelope.
Return(q, data) == [q EXCEPT !.pc = "done", !.status = "SUCCESS", !.data = data]

Call(q, c) == [q EXCEPT !.calls = Append(@, c)]

\* Request slots are taken in order, each once.
CanStart(r) ==
  /\ req[r].op = "idle"
  /\ \A p \in ReqIds : p < r => req[p].op # "idle"

\* User documents the store holds or is about to receive.
UsersCommitted ==
  Cardinality(DOMAIN users)
    + Cardinality({r \in ReqIds : "user" \in req[r].pending})

\* The account signUpWithEmailAndPassword leaves for Email(u).
SignedUp(u) == NewUser(Email(u), Some(hashPassword(<<"pw">>)))

\* The service starts on a collection that holds the accounts signed up
\* before, if any, and on an empty Image Store.
Init ==
  /\ \E n \in 0..MaxUsers : users = [u \in 1..n |-> SignedUp(u)]
  /\ preferences = <<>>
  /\ images = {}
  /\ nextAsset = 0
  /\ req = [r \in ReqIds |-> IdleReq]

---------------------------------------------------------------------------
(* createUser, signUpwithGoogle, signUpWithEmailAndPassword *)

CreateUserDTOs == [id : {None} \cup {Some(u) : u \in UserIds}, email : Emails]

\* createUser starts both writes without awaiting either and returns.
CreateUser(r) ==
  /\ CanStart(r)
  /\ UsersCommitted < MaxUsers
  /\ \E dto \in CreateUserDTOs :
       req' = [req EXCEPT ![r] =
         [Call(Call(Start("createUser", dto.id, Some(dto)), <<"create">>),
               <<"createPreferences", dto.id>>)
            EXCEPT !.pc = "writes", !.pending = {"user", "prefs"},
                   !.status = "returned"]]
  /\ UNCHANGED <<users, preferences, images, nextAsset>>

Settle(q, w) ==
  [q EXCEPT !.pending = @ \ {w},
            !.pc = IF q.pending = {w} THEN "done" ELSE @]

\* The user write started by createUser (line 90) reaches the store.
CreateUserWrite(r) ==
  /\ req[r].op = "createUser"
  /\ "user" \in req[r].pending
  /\ LET dto == req[r].arg[1]
         ok == ~EmailTaken(dto.email)
     IN /\ users' = UserModelCreate(NewUser(dto.email, None))
        /\ req' = [req EXCEPT ![r] =
             [Settle(req[r], "user") EXCEPT
                !.created = IF ok THEN Some(FreshUserId) ELSE None]]
  /\ UNCHANGED <<preferences, images, nextAsset>>

\* preferenceService.createPreferences(userId): one record keyed by userId.
createPreferences(key) == Append(preferences, key)

\* The preferences write started by createUser (line 93) reaches the store.
CreatePreferencesWrite(r) ==
  /\ req[r].op = "createUser"
  /\ "prefs" \in req[r].pending
  /\ preferences' = createPreferences(req[r].calls[2][2])
  /\ req' = [req EXCEPT ![r] = Settle(req[r], "prefs")]
  /\ UNCHANGED <<users, images, nextAsset>>

SignUp(r, op, email, password) ==
  /\ CanStart(r)
  /\ UsersCommitted < MaxUsers
  /\ users' = UserModelCreate(NewUser(email, password))
  /\ req' = [req EXCEPT ![r] =
       IF EmailTaken(email)
       THEN Throw(Call(Start(op, None, Some(email)), <<"create">>), "Error")
       ELSE [Return(Call(Start(op, None, Some(email)), <<"create">>),
                    Some(NewUser(email, password)))
               EXCEPT !.created = Some(FreshUserId)]]
  /\ UNCHANGED <<preferences, images, nextAsset>>

SignUpwithGoogle(r) ==
  \E email \in Emails : SignUp(r, "signUpwithGoogle", email, None)

SignUpWithEmailAndPassword(r) ==
  \E email \in Emails, pw \in Passwords :
    SignUp(r, "signUpWithEmailAndPassword", email, Some(hashPassword(pw)))

---------------------------------------------------------------------------
(* getUserById *)

GetUserById(r) ==
  /\ CanStart(r)
  /\ \E id \in UserIds :
       LET q == Call(Start("getUserById", Some(id), None), <<"findById">>)
           user == findById(id)
       IN req' = [req EXCEPT ![r] =
            IF user = None THEN Throw(q, "NotFound") ELSE Return(q, user)]
  /\ UNCHANGED <<users, preferences, images, nextAsset>>

---------------------------------------------------------------------------
(* updateUser *)

\* An UpdateUserDTO holding exactly the fields of the record given.
Patch(fs) == [f \in Fields |-> IF f \in DOMAIN fs THEN Some(fs[f]) ELSE None]

\* The update documents requests send: none at all, one without fields,
\* one whose only field is falsy, and two that change fields.
Patches ==
  {None,
   Some(Patch(<<>>)),
   Some(Patch([bio |-> EmptyString])),
   Some(Patch([bio |-> <<"b">>, website |-> <<"example.com">>])),
   Some(Patch([city |-> EmptyString, github |-> <<"https://", "gh">>]))}

\* The guard of line 142.
NoChanges(updateUserDto) == updateUserDto = None

\* The $set document with every field the DTO holds spread into it, the
\* falsy ones too.
UpdateSet_SpreadsPresent(dto) ==
  [f \in {g \in Fields : dto[g] # None} |->
     IF f \in UrlFields THEN startsWithHttp(dto[f][1]) ELSE dto[f][1]]

\* The $set document of lines 159-192: a field is spread into it only when
\* its value in the DTO is truthy.
UpdateSet(dto) ==
  [f \in {g \in Fields : Truthy(dto[g])} |->
     IF f \in UrlFields THEN startsWithHttp(dto[f][1]) ELSE dto[f][1]]

\* updateOne({ $set: set }) on a stored document.
ApplySet(doc, set) ==
  [doc EXCEPT !.profile =
     [f \in Fields |-> IF f \in DOMAIN set THEN Some(set[f]) ELSE @[f]]]

UpdateUserFindIn(r, dtos) ==
  /\ CanStart(r)
  /\ \E id \in UserIds, dto \in dtos :
       LET q == Start("updateUser", Some(id), dto)
           user == findById(id)
       IN req' = [req EXCEPT ![r] =
            IF NoChanges(dto) THEN Throw(q, "BadRequest")
            ELSE IF user = None THEN Throw(Call(q, <<"findById">>), "NotFound")
            ELSE [Call(q, <<"findById">>) EXCEPT !.pc = "updateOne", !.user = user]]
  /\ UNCHANGED <<users, preferences, images, nextAsset>>

UpdateUserFind(r) == UpdateUserFindIn(r, Patches)

UpdateUserWrite(r) ==
  /\ req[r].op = "updateUser"
  /\ req[r].pc = "updateOne"
  /\ LET id == req[r].id[1]
     IN users' = [users EXCEPT ![id] = ApplySet(@, UpdateSet(req[r].arg[1]))]
  /\ req' = [req EXCEPT ![r] = Return(Call(req[r], <<"updateOne">>), None)]
  /\ UNCHANGED <<preferences, images, nextAsset>>

---------------------------------------------------------------------------
(* makeAdmin *)

\* The update replacing the stored document instead of setting one field.
SetRoleAdmin_ReplacesDocument(doc) ==
  [NewUser(doc.email, None) EXCEPT !.role = RoleAdmin]

\* updateOne({ role: ROLE.ADMIN }) on a stored document.
SetRoleAdmin(doc) == [doc EXCEPT !.role = RoleAdmin]

\* makeAdmin without the guard of line 205: user.updateOne on null throws
\* a TypeError instead of the NotFoundException.
MakeAdminFind_NoNullCheck(r) ==
  /\ CanStart(r)
  /\ \E id \in UserIds :
       LET q == Call(Start("makeAdmin", Some(id), None), <<"findById">>)
           user == findById(id)
       IN req' = [req EXCEPT ![r] =
            IF user = None THEN Throw(q, "Error")
            ELSE [q EXCEPT !.pc = "updateOne", !.user = user]]
  /\ UNCHANGED <<users, preferences, images, nextAsset>>

MakeAdminFind(r) ==
  /\ CanStart(r)
  /\ \E id \in UserIds :
       LET q == Call(Start("makeAdmin", Some(id), None), <<"findById">>)
           user == findById(id)
       IN req' = [req EXCEPT ![r] =
            IF user = None THEN Throw(q, "NotFound")
            ELSE [q EXCEPT !.pc = "updateOne", !.user = user]]
  /\ UNCHANGED <<users, preferences, images, nextAsset>>

MakeAdminWrite(r) ==
  /\ req[r].op = "makeAdmin"
  /\ req[r].pc = "updateOne"
  /\ LET id == req[r].id[1]
     IN users' = [users EXCEPT ![id] = SetRoleAdmin(@)]
  /\ req' = [req EXCEPT ![r] = Return(Call(req[r], <<"updateOne">>), None)]
  /\ UNCHANGED <<preferences, images, nextAsset>>

---------------------------------------------------------------------------
(* uploadAvatar *)

Files == {None, Some("file")}

\* uploadAvatar without the guard of line 37.
FileIsEmpty_Unchecked(avatar) == FALSE

\* The guard of line 37.
FileIsEmpty(avatar) == avatar = None

\* The guard of line 61: the publicId of the avatar stored on the document.
HasAvatar(user) == user.avatar # None

\* uploadAvatar uploading at once, the old asset left in place.
AfterFind_SkipsDelete(user) == "uploadImage"

\* Where uploadAvatar goes once findById returned the document.
AfterFind(user) == IF HasAvatar(user) THEN "deleteImage" ELSE "uploadImage"

UploadAvatarFind(r) ==
  /\ CanStart(r)
  /\ \E id \in UserIds, avatar \in Files :
       LET q == Start("uploadAvatar", Some(id), avatar)
           user == findById(id)
       IN req' = [req EXCEPT ![r] =
            IF FileIsEmpty(avatar) THEN Throw(q, "BadRequest")
            ELSE IF user = None THEN Throw(Call(q, <<"findById">>), "NotFound")
            ELSE [Call(q, <<"findById">>) EXCEPT
                    !.pc = AfterFind(user[1]), !.user = user]]
  /\ UNCHANGED <<users, preferences, images, nextAsset>>

\* cloudinary.deleteImage(publicId) succeeds: the asset is gone.
UploadAvatarDelete(r) ==
  /\ req[r].op = "uploadAvatar"
  /\ req[r].pc = "deleteImage"
  /\ LET publicId == req[r].user[1].avatar[1].publicId
     IN /\ images' = images \ {publicId}
        /\ req' = [req EXCEPT ![r] =
             [Call(req[r], <<"deleteImage", publicId>>) EXCEPT !.pc = "uploadImage"]]
  /\ UNCHANGED <<users, preferences, nextAsset>>

\* cloudinary.deleteImage(publicId) rejects: nothing catches it.
UploadAvatarDeleteFails(r) ==
  /\ req[r].op = "uploadAvatar"
  /\ req[r].pc = "deleteImage"
  /\ LET publicId == req[r].user[1].avatar[1].publicId
     IN req' = [req EXCEPT ![r] =
          Throw(Call(req[r], <<"deleteImage", publicId>>), "Error")]
  /\ UNCHANGED <<users, preferences, images, nextAsset>>

\* cloudinary.uploadImage(avatar) succeeds: a new asset, with a new id.
UploadAvatarUpload(r) ==
  /\ req[r].op = "uploadAvatar"
  /\ req[r].pc = "uploadImage"
  /\ nextAsset' = nextAsset + 1
  /\ images' = images \cup {nextAsset'}
  /\ req' = [req EXCEPT ![r] =
       [Call(req[r], <<"uploadImage">>) EXCEPT
          !.pc = "updateOne",
          !.asset = Some([secure_url |-> <<"url", nextAsset'>>,
                          public_id |-> nextAsset'])]]
  /\ UNCHANGED <<users, preferences>>

\* A catch that logs the rejection and does not throw again.
UploadFailed_Swallowed(q) == Return(q, None)

\* What the catch of lines 67-75 makes of a rejected upload.
UploadFailed(q) == Throw(q, "BadRequest")

\* cloudinary.uploadImage(avatar) rejects.
UploadAvatarUploadFails(r) ==
  /\ req[r].op = "uploadAvatar"
  /\ req[r].pc = "uploadImage"
  /\ req' = [req EXCEPT ![r] = UploadFailed(Call(req[r], <<"uploadImage">>))]
  /\ UNCHANGED <<users, preferences, images, nextAsset>>

\* Lines 77-78: user.avatar = {...}; user.updateOne(user).  The update is
\* the document itself: every field of it, as findById returned it, is set
\* on the stored document, together with the new avatar.
WithAvatar(user, asset) ==
  [user EXCEPT !.avatar =
     Some([url |-> asset.secure_url, publicId |-> asset.public_id])]

UploadAvatarSave(r) ==
  /\ req[r].op = "uploadAvatar"
  /\ req[r].pc = "updateOne"
  /\ LET id == req[r].id[1]
     IN users' = [users EXCEPT ![id] = WithAvatar(req[r].user[1], req[r].asset[1])]
  /\ req' = [req EXCEPT ![r] = Return(Call(req[r], <<"updateOne">>), None)]
  /\ UNCHANGED <<preferences, images, nextAsset>>

---------------------------------------------------------------------------

Next ==
  \E r \in ReqIds :
    \/ CreateUser(r)
    \/ CreateUserWrite(r)
    \/ CreatePreferencesWrite(r)
    \/ SignUpwithGoogle(r)
    \/ SignUpWithEmailAndPassword(r)
    \/ GetUserById(r)
    \/ UpdateUserFind(r)
    \/ UpdateUserWrite(r)
    \/ MakeAdminFind(r)
    \/ MakeAdminWrite(r)
    \/ UploadAvatarFind(r)
    \/ UploadAvatarDelete(r)
    \/ UploadAvatarDeleteFails(r)
    \/ UploadAvatarUpload(r)
    \/ UploadAvatarUploadFails(r)
    \/ UploadAvatarSave(r)

Spec == Init /\ [][Next]_vars

---------------------------------------------------------------------------
(* updateUser alone, one request, over every shape of update document:     *)
(* each field absent, the empty string, or a new value.                    *)

AllPatches ==
  {Some(dto) : dto \in [Fields -> {None, Some(EmptyString), Some(<<"new">>)}]}

\* An account whose profile an earlier updateUser filled in.
FilledIn(u) ==
  ApplySet(SignedUp(u), UpdateSet([f \in Fields |-> Some(<<"old">>)]))

InitProfile ==
  /\ \E n \in 1..MaxUsers :
       users = [u \in 1..n |-> IF u % 2 = 1 THEN FilledIn(u) ELSE SignedUp(u)]
  /\ preferences = <<>>
  /\ images = {}
  /\ nextAsset = 0
  /\ req = [r \in ReqIds |-> IdleReq]

NextProfile ==
  \/ UpdateUserFindIn(1, AllPatches)
  \/ UpdateUserWrite(1)

SpecProfile == InitProfile /\ [][NextProfile]_vars

---------------------------------------------------------------------------
(* What the claims speak of *)

Done(r) == req[r].pc = "done"

Called(r, c) == \E i \in DOMAIN req[r].calls : req[r].calls[i] = c

\* Some step of request r is taken.
Steps(r) == req'[r] # req[r]

\* Request r begins: its handler runs up to its first await.
Begins(r, op) == req[r].op = "idle" /\ req'[r].op = op

StoreUnchanged == UNCHANGED <<users, preferences, images, nextAsset>>

PreferencesOf(key) == {i \in DOMAIN preferences : preferences[i] = key}

EmptyPatch(dto) == dto = None \/ \A f \in Fields : dto[1][f] = None

---------------------------------------------------------------------------
(* C1: once createUser and both writes it started have completed, for an  *)
(* input the store accepted, the store holds the user this call created,   *)
(* with the input's email, and exactly one preferences record keyed by the *)
(* id of that user.                                                        *)
C1_CreateUserKeysPreferencesByUserId ==
  \A r \in ReqIds :
    (req[r].op = "createUser" /\ Done(r) /\ req[r].created # None) =>
      LET u == req[r].created[1]
      IN /\ u \in DOMAIN users
         /\ users[u].email = req[r].arg[1].email
         /\ Cardinality(PreferencesOf(Some(u))) = 1

---------------------------------------------------------------------------
(* C2: updateUser with an empty patch (absent, or without fields) always   *)
(* fails with BadRequest and never calls updateOne, whether or not the     *)
(* user exists.                                                            *)
C2_EmptyPatchIsBadRequest ==
  \A r \in ReqIds :
    (req[r].op = "updateUser" /\ EmptyPatch(req[r].arg)) =>
      /\ Done(r)
      /\ req[r].status = "BadRequest"
      /\ ~Called(r, <<"updateOne">>)

---------------------------------------------------------------------------
(* C3: the role is monotonic: a user whose stored role is administrator    *)
(* keeps it in every later state, under any interleaving of the requests.  *)
C3_RoleIsMonotonic ==
  [][\A u \in DOMAIN users :
       users[u].role = RoleAdmin => users'[u].role = RoleAdmin]_vars

---------------------------------------------------------------------------
(* C4: in uploadAvatar on a user read with a stored avatar, once the       *)
(* request stands at the Image Store upload or is past it, the delete of   *)
(* the asset whose publicId the read document holds has completed, and it  *)
(* precedes the upload among the calls of the request.                     *)
C4_DeleteBeforeUpload ==
  \A r \in ReqIds :
    (/\ req[r].op = "uploadAvatar"
     /\ req[r].user # None
     /\ req[r].user[1].avatar # None
     /\ req[r].pc = "uploadImage" \/ Called(r, <<"uploadImage">>)) =>
      \E i \in DOMAIN req[r].calls :
        /\ req[r].calls[i] = <<"deleteImage", req[r].user[1].avatar[1].publicId>>
        /\ \A j \in DOMAIN req[r].calls :
             req[r].calls[j] = <<"uploadImage">> => i < j

C4_Witness ==
  \E r \in ReqIds :
    /\ req[r].op = "uploadAvatar"
    /\ req[r].user # None
    /\ req[r].user[1].avatar # None
    /\ Called(r, <<"uploadImage">>)
    /\ Done(r)
    /\ req[r].status = "SUCCESS"

---------------------------------------------------------------------------
(* C5: uploadAvatar with an empty file fails with BadRequest before any    *)
(* collaborator call: no findById, no deleteImage, no uploadImage, no      *)
(* updateOne, and the stores are left as they were, for every id.          *)
C5_EmptyFileFailsFirst ==
  [][\A r \in ReqIds :
       (Begins(r, "uploadAvatar") /\ req'[r].arg = None) =>
         /\ req'[r].pc = "done"
         /\ req'[r].status = "BadRequest"
         /\ req'[r].calls = <<>>
         /\ StoreUnchanged]_vars

C5_Witness ==
  /\ \E r \in ReqIds :
       /\ req[r].op = "uploadAvatar" /\ req[r].arg = None
       /\ req[r].id[1] \in DOMAIN users
       /\ req[r].status = "BadRequest"
  /\ \E r \in ReqIds :
       /\ req[r].op = "uploadAvatar" /\ req[r].arg = None
       /\ req[r].id[1] \notin DOMAIN users
       /\ req[r].status = "BadRequest"

---------------------------------------------------------------------------
(* C6: the write of makeAdmin on an existing user sets the stored role to  *)
(* administrator and changes nothing else, of that user or of any other;   *)
(* applied to a user who is an administrator already it leaves the store   *)
(* as it is; and the call returns the success envelope with no payload.    *)
C6_MakeAdminSetsRoleOnly ==
  [][\A r \in ReqIds :
       (req[r].op = "makeAdmin" /\ req[r].pc = "updateOne" /\ Steps(r)) =>
         LET id == req[r].id[1]
         IN /\ DOMAIN users' = DOMAIN users
            /\ users'[id].role = RoleAdmin
            /\ \A k \in {"email", "password", "avatar", "profile"} :
                 users'[id][k] = users[id][k]
            /\ \A u \in DOMAIN users \ {id} : users'[u] = users[u]
            /\ users[id].role = RoleAdmin => users' = users
            /\ UNCHANGED <<preferences, images, nextAsset>>
            /\ req'[r].pc = "done"
            /\ req'[r].status = "SUCCESS"
            /\ req'[r].data = None]_vars

C6_Witness ==
  \E r, q \in ReqIds :
    /\ r # q
    /\ req[r].op = "makeAdmin" /\ req[q].op = "makeAdmin"
    /\ req[r].id = req[q].id
    /\ req[r].status = "SUCCESS" /\ req[q].status = "SUCCESS"
    /\ users[req[r].id[1]].role = RoleAdmin
    /\ \E u \in DOMAIN users : users[u].role = RoleUser

---------------------------------------------------------------------------
(* C7: the write of updateUser on an existing user changes a profile field *)
(* only when the patch holds a truthy value for it: a field absent from    *)
(* the patch, or falsy in it (the empty string), keeps its stored value;   *)
(* email, password, role and avatar are never changed, nor is any other    *)
(* user.                                                                   *)
C7_UpdateIsPartial ==
  [][\A r \in ReqIds :
       (req[r].op = "updateUser" /\ req[r].pc = "updateOne" /\ Steps(r)) =>
         LET id == req[r].id[1]
             dto == req[r].arg[1]
         IN /\ DOMAIN users' = DOMAIN users
            /\ \A f \in Fields :
                 users'[id].profile[f] # users[id].profile[f] => Truthy(dto[f])
            /\ \A f \in Fields :
                 (dto[f] = None \/ dto[f] = Some(EmptyString)) =>
                   users'[id].profile[f] = users[id].profile[f]
            /\ \A k \in {"email", "password", "role", "avatar"} :
                 users'[id][k] = users[id][k]
            /\ \A u \in DOMAIN users \ {id} : users'[u] = users[u]]_vars

\* An update whose bio is the empty string has left a stored bio as it
\* was, and has overwritten the city with the patch's value.
C7_Witness ==
  \E r \in ReqIds :
    /\ req[r].op = "updateUser"
    /\ req[r].status = "SUCCESS"
    /\ req[r].arg[1]["bio"] = Some(EmptyString)
    /\ req[r].arg[1]["city"] = Some(<<"new">>)
    /\ req[r].arg[1]["country"] = None
    /\ users[req[r].id[1]].profile["bio"] = Some(<<"old">>)
    /\ users[req[r].id[1]].profile["city"] = Some(<<"new">>)
    /\ users[req[r].id[1]].profile["country"] = Some(<<"old">>)

---------------------------------------------------------------------------
(* C8: getUserById, updateUser with a patch that has fields, uploadAvatar  *)
(* with a file, and makeAdmin, called with an id no user has, each fail    *)
(* with NotFound after the one read, and leave the stores as they were.    *)
MissingUserCase(r) ==
  /\ req[r].op = "idle"
  /\ \/ req'[r].op \in {"getUserById", "makeAdmin"}
     \/ req'[r].op = "updateUser" /\ ~EmptyPatch(req'[r].arg)
     \/ req'[r].op = "uploadAvatar" /\ req'[r].arg # None
  /\ req'[r].id[1] \notin DOMAIN users

C8_MissingUserIsNotFound ==
  [][\A r \in ReqIds :
       MissingUserCase(r) =>
         /\ req'[r].pc = "done"
         /\ req'[r].status = "NotFound"
         /\ req'[r].calls = << <<"findById">> >>
         /\ StoreUnchanged]_vars

C8_Witness ==
  \E r, q \in ReqIds :
    /\ req[r].op = "uploadAvatar" /\ req[r].arg # None
    /\ req[r].status = "NotFound"
    /\ req[q].op \in {"getUserById", "updateUser", "makeAdmin"}
    /\ req[q].status = "NotFound"

---------------------------------------------------------------------------
(* C9: when the Image Store rejects the upload, uploadAvatar fails with    *)
(* BadRequest, returns no success envelope and writes nothing to the user  *)
(* collection: the stored avatar is what it was before.                    *)
UploadRejected(r) ==
  /\ req[r].op = "uploadAvatar"
  /\ req'[r].calls = Append(req[r].calls, <<"uploadImage">>)
  /\ nextAsset' = nextAsset

C9_FailedUploadWritesNothing ==
  [][\A r \in ReqIds :
       UploadRejected(r) =>
         /\ req'[r].pc = "done"
         /\ req'[r].status = "BadRequest"
         /\ ~Called(r, <<"updateOne">>)
         /\ users' = users]_vars

C9_Witness ==
  \E r \in ReqIds :
    /\ req[r].op = "uploadAvatar"
    /\ Done(r)
    /\ req[r].status = "BadRequest"
    /\ Called(r, <<"uploadImage">>)
    /\ users[req[r].id[1]].avatar # None

---------------------------------------------------------------------------
(* C10: once every uploadAvatar request has completed, every avatar        *)
(* publicId stored on a user names an asset the Image Store holds, and     *)
(* every asset the Image Store holds is the avatar of some user.           *)
UploadsCompleted ==
  \A r \in ReqIds : req[r].op = "uploadAvatar" => Done(r)

C10_AvatarsMatchImageStore ==
  UploadsCompleted =>
    /\ \A u \in DOMAIN users :
         users[u].avatar # None => users[u].avatar[1].publicId \in images
    /\ \A p \in images :
         \E u \in DOMAIN users :
           users[u].avatar # None /\ users[u].avatar[1].publicId = p

====
